---- MODULE Spec2Model ----
(***************************************************************************)
(* A model of the SuperCoach scraper's record linkage                      *)
(* (AFL_PROJECT/data_scripts/data_processing/supercoach_scraper.py):       *)
(*   - standardize_team_name / get_team_mapping   (team normalisation)     *)
(*   - parse_player_data                          (string decomposition)   *)
(*   - normalize_name / get_name_variants         (name normalisation)     *)
(*   - match_player_id and its strategies         (identity resolution)    *)
(*   - clean_supercoach_data                      (the batch driver)       *)
(*                                                                         *)
(* A Python str is a sequence of one-character strings, so that the        *)
(* regular expression, str.strip, str.split, str.replace, LOWER and ILIKE  *)
(* are computed character by character.  Python's None (and pandas' NaN)   *)
(* is the value None below, which is no sequence of characters.  Python   *)
(* indexes from 0 and TLA+ from 1: an index i of the source is i+1 here.   *)
(***************************************************************************)
EXTENDS Integers, Sequences, FiniteSets, TLC

VARIABLES
    pc,        \* position of the run: the operation under study, then "<operation>_done"
    arg,       \* the argument of the pure function under study
    shape,     \* how arg was put together (the tokens it was concatenated from)
    ret,       \* what the function returned
    db,        \* the player_details table: a set of rows
    full_name, \* match_player_id's first argument
    team,      \* match_player_id's second argument
    result,    \* match_player_id's return value
    qlog,      \* the queries match_player_id issued, in order
    raised,    \* TRUE when a query raised inside match_player_id (query-channel failure)
    escaped,   \* TRUE when that exception left match_player_id instead of a return value
    rows,      \* the batch: the 'Player' column of the scraped frame
    frame,     \* the batch: the cleaned frame, one record per kept row
    conn,      \* the batch: "ok", "no_engine" (db_connection is None) or "no_raw"
    row_idx,   \* the batch: the row DataFrame.apply is at
    report     \* the batch: the matched and total counts it prints

vars == <<pc, arg, shape, ret, db, full_name, team, result, qlog, raised, escaped,
          rows, frame, conn, row_idx, report>>

(***************************************************************************)
(* Values and characters                                                   *)
(***************************************************************************)
None == <<"<None>">>

UpperSeq == <<"A","B","C","D","E","F","G","H","I","J","K","L","M","N","O","P","Q","R","S","T","U","V","W","X","Y","Z">>
LowerSeq == <<"a","b","c","d","e","f","g","h","i","j","k","l","m","n","o","p","q","r","s","t","u","v","w","x","y","z">>
UpperChars == {UpperSeq[i] : i \in 1..Len(UpperSeq)}
LowerChars == {LowerSeq[i] : i \in 1..Len(LowerSeq)}
Whitespace == {" ", "\t"}

\* str.lower / SQL LOWER on one character, then on a string
LowerChar(c) ==
    IF c \in UpperChars
    THEN LowerSeq[CHOOSE i \in 1..Len(UpperSeq) : UpperSeq[i] = c]
    ELSE c

LOWER(s) == [i \in 1..Len(s) |-> LowerChar(s[i])]

\* a mutant of Join: the separator is left out
RECURSIVE Join_without_separator(_, _)
Join_without_separator(parts, sep) ==
    IF Len(parts) = 0 THEN <<>>
    ELSE parts[1] \o Join_without_separator(Tail(parts), sep)

\* ' '.join(parts) for a separator sep
RECURSIVE Join(_, _)
Join(parts, sep) ==
    IF Len(parts) = 0 THEN <<>>
    ELSE IF Len(parts) = 1 THEN parts[1]
    ELSE parts[1] \o sep \o Join(Tail(parts), sep)

\* str.strip(): leading and trailing whitespace removed
RECURSIVE LStrip(_)
LStrip(s) ==
    IF Len(s) > 0 /\ s[1] \in Whitespace THEN LStrip(Tail(s)) ELSE s

RECURSIVE RStrip(_)
RStrip(s) ==
    IF Len(s) > 0 /\ s[Len(s)] \in Whitespace THEN RStrip(SubSeq(s, 1, Len(s) - 1)) ELSE s

Strip(s) == RStrip(LStrip(s))

\* the end (exclusive) of the run of lower-case letters that starts at i
RECURSIVE LowerRunEnd(_, _)
LowerRunEnd(s, i) ==
    IF i <= Len(s) /\ s[i] \in LowerChars THEN LowerRunEnd(s, i + 1) ELSE i

\* re.findall(r'[A-Z][a-z]*', s): scanning from index i
RECURSIVE FindAllFrom(_, _)
FindAllFrom(s, i) ==
    IF i > Len(s) THEN <<>>
    ELSE IF s[i] \in UpperChars
         THEN LET e == LowerRunEnd(s, i + 1)
              IN  <<SubSeq(s, i, e - 1)>> \o FindAllFrom(s, e)
         ELSE FindAllFrom(s, i + 1)

FindAllCapitalised(s) == FindAllFrom(s, 1)

\* the elements of a sequence, as a set
Range(seq) == {seq[i] : i \in 1..Len(seq)}

\* concatenation of a sequence of strings
RECURSIVE Concat(_)
Concat(parts) == IF Len(parts) = 0 THEN <<>> ELSE parts[1] \o Concat(Tail(parts))

(***************************************************************************)
(* Team Name Normalizer                                                    *)
(***************************************************************************)
\* the dict of get_team_mapping, as its items in order
get_team_mapping == <<
    <<<<"B","l","u","e","s">>, <<"C","a","r","l","t","o","n">>>>,
    <<<<"B","o","m","b","e","r","s">>, <<"E","s","s","e","n","d","o","n">>>>,
    <<<<"B","u","l","l","d","o","g","s">>, <<"W","e","s","t","e","r","n"," ","B","u","l","l","d","o","g","s">>>>,
    <<<<"C","a","t","s">>, <<"G","e","e","l","o","n","g"," ","C","a","t","s">>>>,
    <<<<"C","r","o","w","s">>, <<"A","d","e","l","a","i","d","e"," ","C","r","o","w","s">>>>,
    <<<<"D","e","m","o","n","s">>, <<"M","e","l","b","o","u","r","n","e">>>>,
    <<<<"D","o","c","k","e","r","s">>, <<"F","r","e","m","a","n","t","l","e">>>>,
    <<<<"E","a","g","l","e","s">>, <<"W","e","s","t"," ","C","o","a","s","t"," ","E","a","g","l","e","s">>>>,
    <<<<"G","i","a","n","t","s">>, <<"G","W","S"," ","G","I","A","N","T","S">>>>,
    <<<<"H","a","w","k","s">>, <<"H","a","w","t","h","o","r","n">>>>,
    <<<<"K","a","n","g","a","r","o","o","s">>, <<"N","o","r","t","h"," ","M","e","l","b","o","u","r","n","e">>>>,
    <<<<"L","i","o","n","s">>, <<"B","r","i","s","b","a","n","e"," ","L","i","o","n","s">>>>,
    <<<<"M","a","g","p","i","e","s">>, <<"C","o","l","l","i","n","g","w","o","o","d">>>>,
    <<<<"P","o","w","e","r">>, <<"P","o","r","t"," ","A","d","e","l","a","i","d","e">>>>,
    <<<<"S","a","i","n","t","s">>, <<"S","t"," ","K","i","l","d","a">>>>,
    <<<<"S","u","n","s">>, <<"G","o","l","d"," ","C","o","a","s","t"," ","S","U","N","S">>>>,
    <<<<"S","w","a","n","s">>, <<"S","y","d","n","e","y"," ","S","w","a","n","s">>>>,
    <<<<"T","i","g","e","r","s">>, <<"R","i","c","h","m","o","n","d">>>> >>

\* dict.keys() and dict.values() of a dict given as its items
Keys(items) == {items[i][1] : i \in 1..Len(items)}
Values(items) == {items[i][2] : i \in 1..Len(items)}

\* dict.get(key, default)
DictGet(items, key, default) ==
    IF key \in Keys(items)
    THEN items[CHOOSE i \in 1..Len(items) : items[i][1] = key][2]
    ELSE default

\* a mutant of standardize_team_name: the lookup ignores letter case
standardize_team_name_nocase(supercoach_team) ==
    IF supercoach_team = None \/ Len(supercoach_team) = 0 THEN None
    ELSE IF \E i \in 1..Len(get_team_mapping) :
                LOWER(get_team_mapping[i][1]) = LOWER(supercoach_team)
         THEN get_team_mapping[CHOOSE i \in 1..Len(get_team_mapping) :
                LOWER(get_team_mapping[i][1]) = LOWER(supercoach_team)][2]
         ELSE supercoach_team

\* a mutant of standardize_team_name: the canonical name is mapped back to its token
standardize_team_name_swap(supercoach_team) ==
    IF supercoach_team = None \/ Len(supercoach_team) = 0 THEN None
    ELSE IF supercoach_team \in Keys(get_team_mapping)
         THEN DictGet(get_team_mapping, supercoach_team, supercoach_team)
         ELSE IF supercoach_team \in Values(get_team_mapping)
              THEN get_team_mapping[CHOOSE i \in 1..Len(get_team_mapping) :
                       get_team_mapping[i][2] = supercoach_team][1]
              ELSE supercoach_team

standardize_team_name(supercoach_team) ==
    IF supercoach_team = None \/ Len(supercoach_team) = 0
    THEN None
    ELSE DictGet(get_team_mapping, supercoach_team, supercoach_team)

(***************************************************************************)
(* Player-String Decomposer                                                *)
(***************************************************************************)
Sentinel == <<"N","o"," ","r","e","s","u","l","t","s"," ","f","o","u","n","d",".">>

ParsedPlayer(full, abbrev, tm) ==
    [full_name |-> full, abbreviated_name |-> abbrev, team |-> tm]

\* a mutant of potential_splits: the last part can be a split point too (i < len(parts))
potential_splits_to_last(parts) ==
    SelectSeq([i \in 1..Len(parts) |-> i],
              LAMBDA i : Len(parts[i]) = 1 /\ i > 1 /\ i <= Len(parts))

\* the split points: single letters strictly between the first and the last part
potential_splits(parts) ==
    SelectSeq([i \in 1..Len(parts) |-> i],
              LAMBDA i : Len(parts[i]) = 1 /\ i > 1 /\ i < Len(parts))

\* a mutant of split_score: the initial and the shared surname parts score nothing
split_score_length_only(parts, split_idx) ==
    IF Len(SubSeq(parts, 1, split_idx - 1)) >= 2 THEN 1 ELSE 0

\* the score of splitting parts before (1-based) index split_idx
split_score(parts, split_idx) ==
    LET full_name_parts == SubSeq(parts, 1, split_idx - 1)
        abbrev_parts == SubSeq(parts, split_idx, Len(parts))
        s1 == IF Len(full_name_parts) >= 2 THEN 1 ELSE 0
        s2 == IF Len(abbrev_parts) > 0 /\ Len(abbrev_parts[1]) = 1 THEN 2 ELSE 0
        s3 == IF Len(full_name_parts) >= 2 /\ Len(abbrev_parts) >= 2
              THEN 3 * Cardinality(Range(Tail(full_name_parts)) \cap Range(Tail(abbrev_parts)))
              ELSE 0
    IN  s1 + s2 + s3

\* a mutant of best_of: a split replaces the best with an equal score too (>= for >)
RECURSIVE best_of_last_wins(_, _, _)
best_of_last_wins(parts, splits, best) ==
    IF Len(splits) = 0 THEN best
    ELSE LET score == split_score(parts, splits[1])
         IN  best_of_last_wins(parts, Tail(splits),
                     IF score >= best.best_score
                     THEN [best_split |-> splits[1], best_score |-> score]
                     ELSE best)

\* the loop over potential_splits: a split replaces the best only with a higher score
RECURSIVE best_of(_, _, _)
best_of(parts, splits, best) ==
    IF Len(splits) = 0 THEN best
    ELSE LET score == split_score(parts, splits[1])
         IN  best_of(parts, Tail(splits),
                     IF score > best.best_score
                     THEN [best_split |-> splits[1], best_score |-> score]
                     ELSE best)

\* best_split = 0 stands for the source's best_split = None
best_split_of(parts) ==
    best_of(parts, potential_splits(parts), [best_split |-> 0, best_score |-> 0])

\* a mutant of abbrev_start_of: the search starts at the first part (range(0, ...))
abbrev_start_of_from_first(parts) ==
    IF \E i \in 1..Len(parts) : Len(parts[i]) = 1
    THEN CHOOSE i \in 1..Len(parts) :
            /\ Len(parts[i]) = 1
            /\ \A j \in 1..(i - 1) : Len(parts[j]) # 1
    ELSE 0

\* a mutant of abbrev_start_of: the last part is not looked at (range(1, len(parts) - 1))
abbrev_start_of_before_last(parts) ==
    IF \E i \in 2..(Len(parts) - 1) : Len(parts[i]) = 1
    THEN CHOOSE i \in 2..(Len(parts) - 1) :
            /\ Len(parts[i]) = 1
            /\ \A j \in 2..(i - 1) : Len(parts[j]) # 1
    ELSE 0

\* the fallback: the first single letter at an index after the first part, 0 for None
abbrev_start_of(parts) ==
    IF \E i \in 2..Len(parts) : Len(parts[i]) = 1
    THEN CHOOSE i \in 2..Len(parts) :
            /\ Len(parts[i]) = 1
            /\ \A j \in 2..(i - 1) : Len(parts[j]) # 1
    ELSE 0

\* a mutant of split_names: the scored split is never used, only the fallback
split_names_fallback_only(parts) ==
    LET abbrev_start == abbrev_start_of(parts)
    IN  IF abbrev_start # 0
        THEN [full_name |-> Join(SubSeq(parts, 1, abbrev_start - 1), <<" ">>),
              abbrev_name |-> Join(SubSeq(parts, abbrev_start, Len(parts)), <<" ">>)]
        ELSE [full_name |-> Join(parts, <<" ">>), abbrev_name |-> None]

\* what parse_player_data does with the parts left after the team is taken off
split_names(parts) ==
    LET best == best_split_of(parts)
    IN  IF best.best_split # 0 /\ best.best_score >= 3
        THEN [full_name |-> Join(SubSeq(parts, 1, best.best_split - 1), <<" ">>),
              abbrev_name |-> Join(SubSeq(parts, best.best_split, Len(parts)), <<" ">>)]
        ELSE LET abbrev_start == abbrev_start_of(parts)
             IN  IF abbrev_start # 0
                 THEN [full_name |-> Join(SubSeq(parts, 1, abbrev_start - 1), <<" ">>),
                       abbrev_name |-> Join(SubSeq(parts, abbrev_start, Len(parts)), <<" ">>)]
                 ELSE [full_name |-> Join(parts, <<" ">>), abbrev_name |-> None]

\* a mutant of parse_player_data: a whitespace-only string is not rejected
parse_player_data_no_strip(player_string) ==
    IF player_string = None \/ player_string = Sentinel
    THEN ParsedPlayer(None, None, None)
    ELSE IF Len(player_string) = 0
    THEN ParsedPlayer(None, None, None)
    ELSE LET all_parts == FindAllCapitalised(player_string)
         IN  IF Len(all_parts) < 3
             THEN ParsedPlayer(player_string, None, None)
             ELSE LET has_team == all_parts[Len(all_parts)] \in Keys(get_team_mapping)
                      tm == IF has_team THEN all_parts[Len(all_parts)] ELSE None
                      parts == IF has_team
                               THEN SubSeq(all_parts, 1, Len(all_parts) - 1)
                               ELSE all_parts
                      names == split_names(parts)
                  IN  ParsedPlayer(names.full_name, names.abbrev_name,
                                   standardize_team_name(tm))

\* a mutant of parse_player_data: two parts are enough to look for a team (< 2 for < 3)
parse_player_data_two_parts(player_string) ==
    IF player_string = None \/ player_string = Sentinel
    THEN ParsedPlayer(None, None, None)
    ELSE IF Len(player_string) = 0 \/ Len(Strip(player_string)) = 0
    THEN ParsedPlayer(None, None, None)
    ELSE LET all_parts == FindAllCapitalised(player_string)
         IN  IF Len(all_parts) < 2
             THEN ParsedPlayer(player_string, None, None)
             ELSE LET has_team == all_parts[Len(all_parts)] \in Keys(get_team_mapping)
                      tm == IF has_team THEN all_parts[Len(all_parts)] ELSE None
                      parts == IF has_team
                               THEN SubSeq(all_parts, 1, Len(all_parts) - 1)
                               ELSE all_parts
                      names == split_names(parts)
                  IN  ParsedPlayer(names.full_name, names.abbrev_name,
                                   standardize_team_name(tm))

\* a mutant of parse_player_data: the team part stays among the parts of the names
parse_player_data_keep_team(player_string) ==
    IF player_string = None \/ player_string = Sentinel
    THEN ParsedPlayer(None, None, None)
    ELSE IF Len(player_string) = 0 \/ Len(Strip(player_string)) = 0
    THEN ParsedPlayer(None, None, None)
    ELSE LET all_parts == FindAllCapitalised(player_string)
         IN  IF Len(all_parts) < 3
             THEN ParsedPlayer(player_string, None, None)
             ELSE LET has_team == all_parts[Len(all_parts)] \in Keys(get_team_mapping)
                      tm == IF has_team THEN all_parts[Len(all_parts)] ELSE None
                      names == split_names(all_parts)
                  IN  ParsedPlayer(names.full_name, names.abbrev_name,
                                   standardize_team_name(tm))

parse_player_data(player_string) ==
    IF player_string = None \/ player_string = Sentinel
    THEN ParsedPlayer(None, None, None)
    ELSE IF Len(player_string) = 0 \/ Len(Strip(player_string)) = 0
    THEN ParsedPlayer(None, None, None)
    ELSE LET all_parts == FindAllCapitalised(player_string)
         IN  IF Len(all_parts) < 3
             THEN ParsedPlayer(player_string, None, None)
             ELSE LET has_team == all_parts[Len(all_parts)] \in Keys(get_team_mapping)
                      tm == IF has_team THEN all_parts[Len(all_parts)] ELSE None
                      parts == IF has_team
                               THEN SubSeq(all_parts, 1, Len(all_parts) - 1)
                               ELSE all_parts
                      names == split_names(parts)
                  IN  ParsedPlayer(names.full_name, names.abbrev_name,
                                   standardize_team_name(tm))

(***************************************************************************)
(* Name Normalizer                                                         *)
(***************************************************************************)
\* s starts with the string p
StartsWith(s, p) == Len(s) >= Len(p) /\ SubSeq(s, 1, Len(p)) = p

\* str.replace(old, new): every non-overlapping occurrence, from the left
RECURSIVE Replace(_, _, _)
Replace(s, old, new) ==
    IF Len(s) < Len(old) THEN s
    ELSE IF StartsWith(s, old)
         THEN new \o Replace(SubSeq(s, Len(old) + 1, Len(s)), old, new)
         ELSE <<s[1]>> \o Replace(Tail(s), old, new)

\* str.count(c) for one character
CountChar(s, c) == Cardinality({i \in 1..Len(s) : s[i] = c})

\* str.split(c) on a single character: the empty pieces are kept
RECURSIVE SplitOn(_, _)
SplitOn(s, c) ==
    IF \E i \in 1..Len(s) : s[i] = c
    THEN LET i == CHOOSE k \in 1..Len(s) : s[k] = c /\ \A j \in 1..(k - 1) : s[j] # c
         IN  <<SubSeq(s, 1, i - 1)>> \o SplitOn(SubSeq(s, i + 1, Len(s)), c)
    ELSE <<s>>

\* str.split(): on runs of whitespace, no empty piece
RECURSIVE Split(_)
Split(s) ==
    LET t == LStrip(s)
    IN  IF Len(t) = 0 THEN <<>>
        ELSE IF \E i \in 1..Len(t) : t[i] \in Whitespace
             THEN LET i == CHOOSE k \in 1..Len(t) :
                               t[k] \in Whitespace /\ \A j \in 1..(k - 1) : t[j] \notin Whitespace
                  IN  <<SubSeq(t, 1, i - 1)>> \o Split(SubSeq(t, i + 1, Len(t)))
             ELSE <<t>>

\* the dict name_mappings of normalize_name, as its items in order
name_mappings == <<
    <<<<"T","h","o","m","a","s">>, <<"T","o","m">>>>,
    <<<<"T","i","m","o","t","h","y">>, <<"T","i","m">>>>,
    <<<<"N","i","c","h","o","l","a","s">>, <<"N","i","c","k">>>>,
    <<<<"N","i","c">>, <<"N","i","c","k">>>>,
    <<<<"J","o","s","h","u","a">>, <<"J","o","s","h">>>>,
    <<<<"O","l","i","v","e","r">>, <<"O","l","l","i","e">>>>,
    <<<<"C","a","m","e","r","o","n">>, <<"C","a","m">>>>,
    <<<<"Z","a","c","h","a","r","y">>, <<"Z","a","c">>>>,
    <<<<"M","i","t","c","h","e","l","l">>, <<"M","i","t","c","h">>>>,
    <<<<"M","i","t","c","h","i","t","o">>, <<"M","i","t","c","h">>>>,
    <<<<"J","e","r","e","m","y">>, <<"J","e","r","m">>>>,
    <<<<"J","a","c","k","s","o","n">>, <<"J","a","c","k">>>>,
    <<<<"A","n","t","h","o","n","y">>, <<"T","o","n","y">>>>,
    <<<<"W","i","l","l","i","a","m">>, <<"W","i","l","l">>>>,
    <<<<"C","h","r","i","s","t","o","p","h","e","r">>, <<"C","h","r","i","s">>>>,
    <<<<"B","e","n","j","a","m","i","n">>, <<"B","e","n">>>>,
    <<<<"M","a","t","t","h","e","w">>, <<"M","a","t","t">>>>,
    <<<<"J","o","n","a","t","h","a","n">>, <<"J","o","n">>>>,
    <<<<"A","l","e","x","a","n","d","e","r">>, <<"A","l","e","x">>>>,
    <<<<"M","i","c","h","a","e","l">>, <<"M","i","c","k">>>>,
    <<<<"B","r","a","d","l","e","y">>, <<"B","r","a","d">>>>,
    <<<<"S","a","m","u","e","l">>, <<"S","a","m">>>>,
    <<<<"D","o","m","i","n","i","c">>, <<"D","o","m">>>>,
    <<<<"N","i","k","o","l","a","s">>, <<"N","i","k">>>>,
    <<<<"J","o","s","e","p","h">>, <<"J","o","e">>>>,
    <<<<"D","a","n","i","e","l">>, <<"D","a","n">>>>,
    <<<<"N","i","c","k">>, <<"N","i","c","h","o","l","a","s">>>>,
    <<<<"O","l","l","i","e">>, <<"O","l","i","v","e","r">>>>,
    <<<<"M","i","t","c","h">>, <<"M","i","t","c","h","e","l","l">>>>,
    <<<<"N","i","k">>, <<"N","i","k","o","l","a","s">>>>,
    <<<<"J","o","e">>, <<"J","o","s","e","p","h">>>>,
    <<<<"D","a","n">>, <<"D","a","n","i","e","l">>>>,
    <<<<"T","o","m">>, <<"T","h","o","m","a","s">>>> >>

\* the surname spacing repairs (the two lines of replace calls)
repair_spacing(name) ==
    LET n1 == Replace(name, <<" ","M","c"," ">>, <<"M","c">>)
        n2 == Replace(n1, <<" ","M","a","c"," ">>, <<"M","a","c">>)
        n3 == Replace(n2, <<" ","O","'">>, <<"O","'">>)
        n4 == Replace(n3, <<"M","c"," ">>, <<"M","c">>)
    IN  Replace(n4, <<"M","a","c"," ">>, <<"M","a","c">>)

\* a mutant of hyphenate: words of 2 characters are long enough (>= 2 for > 2)
hyphenate_two_characters(name) ==
    IF (\E i \in 1..Len(name) : name[i] = " ")
          /\ CountChar(name, " ") = 1
          /\ name \notin Keys(name_mappings)
    THEN LET parts == SplitOn(name, " ")
         IN  IF Len(parts) = 2 /\ Len(parts[1]) >= 2 /\ Len(parts[2]) >= 2
             THEN Join(parts, <<"-">>)
             ELSE name
    ELSE name

\* the heuristic hyphenation of a two-word name that is no key of the dict
hyphenate(name) ==
    IF (\E i \in 1..Len(name) : name[i] = " ")
          /\ CountChar(name, " ") = 1
          /\ name \notin Keys(name_mappings)
    THEN LET parts == SplitOn(name, " ")
         IN  IF Len(parts) = 2 /\ Len(parts[1]) > 2 /\ Len(parts[2]) > 2
             THEN Join(parts, <<"-">>)
             ELSE name
    ELSE name

\* a mutant of normalize_name: the dict is looked up a second time on its own value
normalize_name_twice(name) ==
    IF name = None \/ Len(name) = 0
    THEN name
    ELSE LET repaired == hyphenate(repair_spacing(name))
             mapped == DictGet(name_mappings, repaired, repaired)
         IN  DictGet(name_mappings, mapped, mapped)

normalize_name(name) ==
    IF name = None \/ Len(name) = 0
    THEN name
    ELSE LET repaired == hyphenate(repair_spacing(name))
         IN  DictGet(name_mappings, repaired, repaired)

\* the dict reverse_mapping of get_name_variants, as its items in order
reverse_mapping == <<
    <<<<"N","i","c","k">>, <<<<"N","i","c","h","o","l","a","s">>, <<"N","i","c">>>> >>,
    <<<<"N","i","c","h","o","l","a","s">>, <<<<"N","i","c","k">>, <<"N","i","c">>>> >>,
    <<<<"N","i","c">>, <<<<"N","i","c","h","o","l","a","s">>, <<"N","i","c","k">>>> >>,
    <<<<"O","l","l","i","e">>, <<<<"O","l","i","v","e","r">>>> >>,
    <<<<"O","l","i","v","e","r">>, <<<<"O","l","l","i","e">>>> >>,
    <<<<"M","i","t","c","h">>, <<<<"M","i","t","c","h","e","l","l">>, <<"M","i","t","c","h","i","t","o">>>> >>,
    <<<<"M","i","t","c","h","e","l","l">>, <<<<"M","i","t","c","h">>>> >>,
    <<<<"M","i","t","c","h","i","t","o">>, <<<<"M","i","t","c","h">>, <<"M","i","t","c","h","e","l","l">>>> >>,
    <<<<"N","i","k">>, <<<<"N","i","k","o","l","a","s">>>> >>,
    <<<<"N","i","k","o","l","a","s">>, <<<<"N","i","k">>>> >>,
    <<<<"J","o","e">>, <<<<"J","o","s","e","p","h">>>> >>,
    <<<<"J","o","s","e","p","h">>, <<<<"J","o","e">>>> >>,
    <<<<"D","a","n">>, <<<<"D","a","n","i","e","l">>>> >>,
    <<<<"D","a","n","i","e","l">>, <<<<"D","a","n">>>> >>,
    <<<<"T","o","m">>, <<<<"T","h","o","m","a","s">>>> >>,
    <<<<"T","h","o","m","a","s">>, <<<<"T","o","m">>>> >>,
    <<<<"J","o","s","h">>, <<<<"J","o","s","h","u","a">>>> >>,
    <<<<"J","o","s","h","u","a">>, <<<<"J","o","s","h">>>> >>,
    <<<<"C","a","m">>, <<<<"C","a","m","e","r","o","n">>>> >>,
    <<<<"C","a","m","e","r","o","n">>, <<<<"C","a","m">>>> >>,
    <<<<"Z","a","c">>, <<<<"Z","a","c","h","a","r","y">>>> >>,
    <<<<"Z","a","c","h","a","r","y">>, <<<<"Z","a","c">>>> >>,
    <<<<"B","r","a","d">>, <<<<"B","r","a","d","l","e","y">>>> >>,
    <<<<"B","r","a","d","l","e","y">>, <<<<"B","r","a","d">>>> >>,
    <<<<"S","a","m">>, <<<<"S","a","m","u","e","l">>>> >>,
    <<<<"S","a","m","u","e","l">>, <<<<"S","a","m">>>> >> >>

\* the loop that removes duplicates while preserving order
RECURSIVE unique_variants(_, _)
unique_variants(variants, seen) ==
    IF Len(variants) = 0 THEN <<>>
    ELSE IF variants[1] \in seen
         THEN unique_variants(Tail(variants), seen)
         ELSE <<variants[1]>> \o unique_variants(Tail(variants), seen \cup {variants[1]})

\* a mutant of get_name_variants: the normalized form is left out
get_name_variants_no_normalized(name) ==
    IF name = None \/ Len(name) = 0
    THEN <<name>>
    ELSE LET v1 == <<name>>
             v2 == IF name \in Keys(reverse_mapping)
                   THEN v1 \o DictGet(reverse_mapping, name, <<>>)
                   ELSE v1
         IN  unique_variants(v2, {})

get_name_variants(name) ==
    IF name = None \/ Len(name) = 0
    THEN <<name>>
    ELSE LET normalized == normalize_name(name)
             v1 == IF normalized # name THEN <<name, normalized>> ELSE <<name>>
             v2 == IF name \in Keys(reverse_mapping)
                   THEN v1 \o DictGet(reverse_mapping, name, <<>>)
                   ELSE v1
         IN  unique_variants(v2, {})

(***************************************************************************)
(* Identity Resolver                                                       *)
(*                                                                         *)
(* A row of player_details is [id, firstName, surname, team, season].  A   *)
(* query is [kind, first, last, team, strategy]: the SQL text is fixed by  *)
(* kind, the parameters are first, last and team, and strategy is the      *)
(* number the source gives the strategy that issues it (0: single name).   *)
(***************************************************************************)
NoId == 0 - 1   \* match_player_id's None, among the integer ids

\* SQL LIKE of string s against pattern p: % any run of characters, _ any one
RECURSIVE Like(_, _)
Like(s, p) ==
    IF Len(p) = 0 THEN Len(s) = 0
    ELSE IF p[1] = "%"
         THEN \E k \in 0..Len(s) : Like(SubSeq(s, k + 1, Len(s)), Tail(p))
         ELSE /\ Len(s) > 0
              /\ (p[1] = "_" \/ p[1] = s[1])
              /\ Like(Tail(s), Tail(p))

\* LOWER(column) ILIKE LOWER(pattern)
ILike(column, pattern) == Like(LOWER(LOWER(column)), LOWER(LOWER(pattern)))

\* f'%{name}%'
Contains(name) == <<"%">> \o name \o <<"%">>

Query(kind, first, last, tm, strategy) ==
    [kind |-> kind, first |-> first, last |-> last, team |-> tm, strategy |-> strategy]

\* the conditions on firstName and surname a query's WHERE clause (and its
\* MAX(season) subquery) puts on a row
NameCondition(q, r) ==
    CASE q.kind = "first_name_only" -> LOWER(r.firstName) = LOWER(q.first)
      [] q.kind = "exact" ->
            LOWER(r.firstName) = LOWER(q.first) /\ LOWER(r.surname) = LOWER(q.last)
      [] q.kind = "fuzzy_first" ->
            ILike(r.firstName, Contains(q.first)) /\ LOWER(r.surname) = LOWER(q.last)
      [] q.kind = "fuzzy_surname" ->
            LOWER(r.firstName) = LOWER(q.first) /\ ILike(r.surname, Contains(q.last))
      [] q.kind = "fuzzy_both" ->
            ILike(r.firstName, Contains(q.first)) /\ ILike(r.surname, Contains(q.last))
      [] q.kind = "partial" -> LOWER(r.firstName) = LOWER(q.first)

\* the rows the MAX(season) subquery ranges over: the name conditions without
\* the team; the whole table for the partial match
SubqueryRows(q, table) ==
    IF q.kind = "partial" THEN table ELSE {r \in table : NameCondition(q, r)}

\* SELECT MAX(season): the set is empty for SQL's NULL
MaxSeason(S) == {r.season : r \in {x \in S : \A y \in S : y.season <= x.season}}

\* a mutant of QueryRows: the MAX(season) condition is dropped
QueryRowsAnySeason(q, table) ==
    {r \in table : NameCondition(q, r) /\ LOWER(r.team) = LOWER(q.team)}

\* a mutant of QueryRows: the team condition is dropped
QueryRowsAnyTeam(q, table) ==
    {r \in table :
        /\ NameCondition(q, r)
        /\ r.season \in MaxSeason(SubqueryRows(q, table))}

\* the rows a query selects, before LIMIT 1
QueryRows(q, table) ==
    {r \in table :
        /\ NameCondition(q, r)
        /\ LOWER(r.team) = LOWER(q.team)
        /\ r.season \in MaxSeason(SubqueryRows(q, table))}

\* try_complex_surname_match's surname_variations for name_parts
surname_variations(name_parts) ==
    IF Len(name_parts) < 3 THEN <<>>
    ELSE <<Join(Tail(name_parts), <<" ">>)>>
         \o (IF Len(name_parts) = 3
             THEN <<name_parts[2] \o <<"-">> \o name_parts[3]>> ELSE <<>>)
         \o (IF LOWER(name_parts[2]) \in {<<"m","c">>, <<"m","a","c">>}
             THEN <<name_parts[2] \o name_parts[3],
                    name_parts[2] \o <<" ">> \o name_parts[3]>>
             ELSE <<>>)

\* a mutant of original_name_queries: the original first name is always tried
original_name_queries_unconditional(name_parts, first_name, last_name, last_name_raw, tm) ==
    <<Query("exact", name_parts[1], last_name, tm, 2)>>
    \o (IF last_name # last_name_raw
        THEN <<Query("exact", first_name, last_name_raw, tm, 3)>> ELSE <<>>)
    \o (IF first_name # name_parts[1] /\ last_name # last_name_raw
        THEN <<Query("exact", name_parts[1], last_name_raw, tm, 4)>> ELSE <<>>)

\* strategies 2 to 4: the exact match with the original names, where they differ
original_name_queries(name_parts, first_name, last_name, last_name_raw, tm) ==
    (IF first_name # name_parts[1]
     THEN <<Query("exact", name_parts[1], last_name, tm, 2)>> ELSE <<>>)
    \o (IF last_name # last_name_raw
        THEN <<Query("exact", first_name, last_name_raw, tm, 3)>> ELSE <<>>)
    \o (IF first_name # name_parts[1] /\ last_name # last_name_raw
        THEN <<Query("exact", name_parts[1], last_name_raw, tm, 4)>> ELSE <<>>)

\* strategy 5: every first-name variant, with the normalized then the original surname
RECURSIVE variant_queries(_, _, _, _)
variant_queries(variants, last_name, last_name_raw, tm) ==
    IF Len(variants) = 0 THEN <<>>
    ELSE <<Query("exact", variants[1], last_name, tm, 5)>>
         \o (IF last_name # last_name_raw
             THEN <<Query("exact", variants[1], last_name_raw, tm, 5)>> ELSE <<>>)
         \o variant_queries(Tail(variants), last_name, last_name_raw, tm)

\* a mutant of cascade: the fuzzy strategy is tried before the exact ones
cascade_fuzzy_first(name_parts, tm) ==
    LET first_name == normalize_name(name_parts[1])
        last_name_raw == Join(Tail(name_parts), <<" ">>)
        last_name == normalize_name(last_name_raw)
        complex == surname_variations(name_parts)
    IN  <<Query("fuzzy_first", first_name, last_name, tm, 6),
          Query("fuzzy_surname", first_name, last_name, tm, 6),
          Query("fuzzy_both", first_name, last_name, tm, 6)>>
        \o <<Query("exact", first_name, last_name, tm, 1)>>
        \o original_name_queries(name_parts, first_name, last_name, last_name_raw, tm)
        \o variant_queries(get_name_variants(name_parts[1]), last_name, last_name_raw, tm)
        \o [i \in 1..Len(complex) |-> Query("exact", name_parts[1], complex[i], tm, 7)]
        \o <<Query("partial", name_parts[1], <<>>, tm, 8)>>

\* the queries match_player_id issues for a name of two or more parts, in order,
\* when none of them finds a row
cascade(name_parts, tm) ==
    LET first_name == normalize_name(name_parts[1])
        last_name_raw == Join(Tail(name_parts), <<" ">>)
        last_name == normalize_name(last_name_raw)
        complex == surname_variations(name_parts)
    IN  <<Query("exact", first_name, last_name, tm, 1)>>
        \o original_name_queries(name_parts, first_name, last_name, last_name_raw, tm)
        \o variant_queries(get_name_variants(name_parts[1]), last_name, last_name_raw, tm)
        \o <<Query("fuzzy_first", first_name, last_name, tm, 6),
             Query("fuzzy_surname", first_name, last_name, tm, 6),
             Query("fuzzy_both", first_name, last_name, tm, 6)>>
        \o [i \in 1..Len(complex) |-> Query("exact", name_parts[1], complex[i], tm, 7)]
        \o <<Query("partial", name_parts[1], <<>>, tm, 8)>>

\* how a call of match_player_id ends
Outcome(id, log, exc, esc) ==
    [result |-> id, qlog |-> log, raised |-> exc, escaped |-> esc]

\* a mutant of on_exception: the exception is raised again
on_exception_reraise(log) == Outcome(NoId, log, TRUE, TRUE)

\* except Exception as e: print(...); return None
on_exception(log) == Outcome(NoId, log, TRUE, FALSE)

\* Python's truth value of an id: 'if result:' is false for None and for 0
Truthy(id) == id # NoId /\ id # 0

\* the index of the first query after index i that belongs to a later strategy
NextStrategy(plan, i) ==
    IF \E j \in (i + 1)..Len(plan) : plan[j].strategy > plan[i].strategy
    THEN CHOOSE j \in (i + 1)..Len(plan) :
            /\ plan[j].strategy > plan[i].strategy
            /\ \A k \in (i + 1)..(j - 1) : plan[k].strategy <= plan[i].strategy
    ELSE Len(plan) + 1

\* The ways the cascade can end from its i-th query on, log being the queries
\* issued so far.  A query may raise (the channel fails); otherwise LIMIT 1
\* without ORDER BY returns any one of the selected rows.  try_fuzzy_match
\* returns the id of the first row it finds, so an id of 0 ends that strategy;
\* elsewhere the caller's 'if result:' moves on to the next query.
RECURSIVE run_cascade(_, _, _, _)
run_cascade(plan, i, log, table) ==
    IF i > Len(plan) THEN {Outcome(NoId, log, FALSE, FALSE)}
    ELSE LET q == plan[i]
             issued == Append(log, q)
             selected == QueryRows(q, table)
             falsy_next == IF q.strategy = 6 THEN NextStrategy(plan, i) ELSE i + 1
         IN  {on_exception(issued)}
             \cup (IF selected = {} THEN run_cascade(plan, i + 1, issued, table) ELSE {})
             \cup {Outcome(r.id, issued, FALSE, FALSE) : r \in {x \in selected : Truthy(x.id)}}
             \cup (IF \E r \in selected : ~Truthy(r.id)
                   THEN run_cascade(plan, falsy_next, issued, table) ELSE {})

\* match_by_first_name_only: the id of the row found is returned as it is
match_by_first_name_only(first_name, team_name, table) ==
    LET q == Query("first_name_only", first_name, <<>>, team_name, 0)
        selected == QueryRows(q, table)
    IN  {on_exception(<<q>>)}
        \cup (IF selected = {} THEN {Outcome(NoId, <<q>>, FALSE, FALSE)} ELSE {})
        \cup {Outcome(r.id, <<q>>, FALSE, FALSE) : r \in selected}

\* a mutant of valid_arguments: the placeholder 'None' is not checked
valid_arguments_no_placeholder(name, tm) ==
    /\ name # None /\ Len(name) > 0
    /\ tm # None /\ Len(tm) > 0

\* the guards before the try block: both arguments given, team not 'None'
valid_arguments(name, tm) ==
    /\ name # None /\ Len(name) > 0
    /\ tm # None /\ Len(tm) > 0 /\ tm # <<"N","o","n","e">>

\* the set of ways match_player_id(name, tm, connection) can end on a table
match_player_id(name, tm, table) ==
    IF ~valid_arguments(name, tm)
    THEN {Outcome(NoId, <<>>, FALSE, FALSE)}
    ELSE LET name_parts == Split(Strip(name))
         IN  IF Len(name_parts) < 1 THEN {Outcome(NoId, <<>>, FALSE, FALSE)}
             ELSE IF Len(name_parts) = 1
                  THEN match_by_first_name_only(name_parts[1], tm, table)
                  ELSE run_cascade(cascade(name_parts, tm), 1, <<>>, table)

(***************************************************************************)
(* Bounds of the model                                                     *)
(***************************************************************************)
MaxSurnameTokens == 2   \* tokens of a surname in a structured player string
MaxTokens == 4          \* tokens of an unstructured player string
MaxRecords == 2         \* rows of player_details in the runs of match_player_id
MaxSeasonRecords == 3   \* rows of player_details in the runs about seasons
MaxRows == 2            \* rows of the scraped frame in the runs of the batch
MaxBatchRecords == 2    \* rows of player_details in the runs of the batch
MaxCascadeRecords == 2  \* rows of player_details in the runs about the order of the cascade

\* all sequences over S of length lo..hi
SeqsOf(S, lo, hi) == UNION {[1..k -> S] : k \in lo..hi}

(***************************************************************************)
(* The runs of the pure functions: Init draws the argument, the action     *)
(* applies the function.  The variables of the other runs stay idle.       *)
(***************************************************************************)
IdleFunction == arg = None /\ shape = [form |-> "idle"] /\ ret = None
IdleMatch ==
    /\ db = {} /\ full_name = None /\ team = None
    /\ result = NoId /\ qlog = <<>> /\ raised = FALSE /\ escaped = FALSE
NoReport == [matched_count |-> NoId, total_count |-> NoId]
IdleBatch == rows = <<>> /\ frame = <<>> /\ conn = "ok" /\ row_idx = 0 /\ report = NoReport

\* ---- standardize_team_name ------------------------------------------------
TeamInputs ==
    {None, <<>>, <<"H","a","w","k">>, <<"H","a","w","k","s"," ","F","C">>, <<" ">>, <<"N","o","n","e">>}
        \cup Keys(get_team_mapping)
        \cup Values(get_team_mapping)
        \cup {LOWER(k) : k \in Keys(get_team_mapping)}
        \cup {k \o <<" ">> : k \in Keys(get_team_mapping)}

InitTeam ==
    /\ pc = "team"
    /\ arg \in TeamInputs
    /\ shape = [form |-> "team"]
    /\ ret = None
    /\ IdleMatch /\ IdleBatch

CallStandardizeTeamName ==
    /\ pc = "team"
    /\ pc' = "team_done"
    /\ ret' = standardize_team_name(arg)
    /\ UNCHANGED <<arg, shape, db, full_name, team, result, qlog, raised, escaped,
                 rows, frame, conn, row_idx, report>>

SpecTeam == InitTeam /\ [][CallStandardizeTeamName]_vars

\* ---- parse_player_data ----------------------------------------------------
FirstNames == {<<"T","r","i","s","t","a","n">>, <<"M","a","s","s","i","m","o">>, <<"T">>}
SurnameTokens == {<<"X","e","r","r","i">>, <<"A","m","b","r","o","s","i","o">>, <<"D">>}
Initials == {<<"T">>, <<"M">>, <<"D">>}
\* the pieces of an unstructured string: tokens, a team token, lower-case and blank runs
Pieces == {<<"T","r","i","s","t","a","n">>, <<"X","e","r","r","i">>, <<"T">>, <<"D">>, <<"H","a","w","k","s">>, <<"v","a","n"," ">>, <<" ">>}
SpecialInputs == {None, Sentinel, <<>>, <<" ">>, <<" ","\t">>, <<"x"," ","y">>, <<"N","o"," ","r","e","s","u","l","t","s"," ","f","o","u","n","d">>}

StructuredTokens(sh) ==
    <<sh.first>> \o sh.surname \o <<sh.initial>> \o sh.surname \o <<sh.team_token>>

InitParse ==
    /\ pc = "parse"
    /\ ret = None
    /\ IdleMatch /\ IdleBatch
    /\ \/ \E f \in FirstNames, s \in SeqsOf(SurnameTokens, 1, MaxSurnameTokens),
             i \in Initials, t \in Keys(get_team_mapping) :
             /\ shape = [form |-> "structured", first |-> f, surname |-> s,
                         initial |-> i, team_token |-> t]
             /\ arg = Concat(StructuredTokens(shape))
       \/ \E ps \in SeqsOf(Pieces, 1, MaxTokens) :
             /\ shape = [form |-> "pieces", pieces |-> ps]
             /\ arg = Concat(ps)
       \/ /\ shape = [form |-> "special"]
          /\ arg \in SpecialInputs

CallParsePlayerData ==
    /\ pc = "parse"
    /\ pc' = "parse_done"
    /\ ret' = parse_player_data(arg)
    /\ UNCHANGED <<arg, shape, db, full_name, team, result, qlog, raised, escaped,
                 rows, frame, conn, row_idx, report>>

SpecParse == InitParse /\ [][CallParsePlayerData]_vars

\* ---- normalize_name and get_name_variants ----------------------------------
\* the names of the two dicts, and names and surnames outside them
NameInputs ==
    Keys(name_mappings) \cup Values(name_mappings) \cup Keys(reverse_mapping)
    \cup {None, <<>>, <<"X","a","v","i","e","r">>, <<"S","m","i","t","h">>, <<"N","e","a","l"," ","B","u","l","l","e","n">>, <<"D","e"," ","G","o","e","y">>, <<"M","c"," ","C","l","u","g","g","a","g","e">>,
          <<"T","o","m"," ","M","c"," ","D","o","n","a","l","d">>, <<"T","i","m"," ","O","'","B","r","i","e","n">>, <<"T","o","m"," ","S","m","i","t","h">>, <<"N","i","c">>, <<"n","i","c","k">>,
          <<"O","'"," ","B","r","i","e","n">>, <<"M","a","c"," ","D","o","n","a","l","d">>, <<"M","c"," ","D","o","n","a","l","d"," ","S","m","i","t","h">>, <<"A","b","c"," ","D","e","f"," ","G","h","i">>, <<"J","o"," ","S","m","i","t","h">>,
          <<"N","e","a","l"," "," ","B","u","l","l","e","n">>, <<"S","m","i","t","h"," ","J","o">>}

InitNames ==
    /\ pc = "names"
    /\ arg \in NameInputs
    /\ shape = [form |-> "name"]
    /\ ret = None
    /\ IdleMatch /\ IdleBatch

CallNormalizeName ==
    /\ pc = "names"
    /\ pc' = "normalize_done"
    /\ ret' = normalize_name(arg)
    /\ UNCHANGED <<arg, shape, db, full_name, team, result, qlog, raised, escaped,
                 rows, frame, conn, row_idx, report>>

CallGetNameVariants ==
    /\ pc = "names"
    /\ pc' = "variants_done"
    /\ ret' = get_name_variants(arg)
    /\ UNCHANGED <<arg, shape, db, full_name, team, result, qlog, raised, escaped,
                 rows, frame, conn, row_idx, report>>

NextNames == CallNormalizeName \/ CallGetNameVariants

SpecNames == InitNames /\ [][NextNames]_vars

\* ---- match_player_id ------------------------------------------------------
Row(id, c) ==
    [id |-> id, firstName |-> c.firstName, surname |-> c.surname,
     team |-> c.team, season |-> c.season]

\* the tables of at most max rows with distinct ids from Ids and columns from Columns
Tables(Ids, Columns, max) ==
    {{Row(i, f[i]) : i \in DOMAIN f} :
        f \in UNION {[I -> Columns] : I \in {J \in SUBSET Ids : Cardinality(J) <= max}}}

InitMatchOver(tables, names, teams) ==
    /\ pc = "match"
    /\ db \in tables
    /\ full_name \in names
    /\ team \in teams
    /\ result = NoId /\ qlog = <<>> /\ raised = FALSE /\ escaped = FALSE
    /\ IdleFunction /\ IdleBatch

\* one call of match_player_id, from its guards to its return
CallMatchPlayerId ==
    /\ pc = "match"
    /\ pc' = "match_done"
    /\ \E o \in match_player_id(full_name, team, db) :
          /\ result' = o.result
          /\ qlog' = o.qlog
          /\ raised' = o.raised
          /\ escaped' = o.escaped
    /\ UNCHANGED <<arg, shape, ret, db, full_name, team, rows, frame, conn, row_idx, report>>

\* general runs: ids from 0, names that normalisation changes, invalid arguments
MatchColumns ==
    [firstName : {<<"N","i","c">>, <<"N","i","c","k">>}, surname : {<<"S","m","i","t","h">>, <<"S","m","i","t","h","s","o","n">>},
     team : {<<"C","a","r","l","t","o","n">>, <<"E","s","s","e","n","d","o","n">>}, season : {2023, 2024}]
MatchNames == {None, <<>>, <<" ">>, <<"N","o","n","e">>, <<"N","i","c">>, <<"N","i","c"," ","S","m","i","t","h">>}
MatchTeams == {None, <<>>, <<"N","o","n","e">>, <<"C","a","r","l","t","o","n">>, <<"c","a","r","l","t","o","n">>}

InitMatch == InitMatchOver(Tables(0..2, MatchColumns, MaxRecords), MatchNames, MatchTeams)

SpecMatch == InitMatch /\ [][CallMatchPlayerId]_vars

\* runs about seasons: a name that normalisation leaves alone, ids from 1,
\* three seasons, two teams
SeasonColumns ==
    [firstName : {<<"S","a","m">>, <<"S","a","m","m","y">>}, surname : {<<"S","m","i","t","h">>},
     team : {<<"C","a","r","l","t","o","n">>, <<"E","s","s","e","n","d","o","n">>}, season : {2023, 2024, 2025}]

InitSeasons ==
    InitMatchOver(Tables(1..3, SeasonColumns, MaxSeasonRecords), {<<"S","a","m"," ","S","m","i","t","h">>}, {<<"C","a","r","l","t","o","n">>})

SpecSeasons == InitSeasons /\ [][CallMatchPlayerId]_vars

\* runs about the order of the cascade: first names and surnames that
\* normalisation changes or leaves alone, ids from 0, two seasons, one team
CascadeColumns ==
    [firstName : {<<"N","i","c">>, <<"N","i","c","k">>, <<"S","a","m">>},
     surname : {<<"N","e","a","l","-","B","u","l","l","e","n">>, <<"N","e","a","l"," ","B","u","l","l","e","n">>, <<"B","u","l","l","e","n">>},
     team : {<<"C","a","r","l","t","o","n">>}, season : {2023, 2024}]
CascadeNames == {<<"N","i","c"," ","N","e","a","l"," ","B","u","l","l","e","n">>, <<"S","a","m"," ","N","e","a","l"," ","B","u","l","l","e","n">>, <<"N","i","c"," ","B","u","l","l","e","n">>, <<"S","a","m"," ","B","u","l","l","e","n">>}

InitCascade ==
    InitMatchOver(Tables(0..(MaxCascadeRecords - 1), CascadeColumns, MaxCascadeRecords),
                  CascadeNames, {<<"C","a","r","l","t","o","n">>})

SpecCascade == InitCascade /\ [][CallMatchPlayerId]_vars

\* ---- clean_supercoach_data ------------------------------------------------
\* a row of the cleaned frame; failed notes that a query of the row raised
FrameRow(parsed) ==
    [full_name |-> parsed.full_name, abbreviated_name |-> parsed.abbreviated_name,
     team |-> parsed.team, player_id |-> NoId, failed |-> FALSE]

\* supercoach_df[supercoach_df['Player'] != 'No results found.']
drop_sentinel(players) == SelectSeq(players, LAMBDA p : p # Sentinel)

BatchPlayers ==
    {Sentinel, <<"S","a","m","S","m","i","t","h","S","S","m","i","t","h","B","l","u","e","s">>, <<"N","i","c","S","m","i","t","h","N","S","m","i","t","h","B","l","u","e","s">>, <<"S","a","m","B","l","u","e","s">>, <<"S","a","m"," ","S","m","i","t","h">>}
BatchColumns ==
    [firstName : {<<"S","a","m">>, <<"N","i","c">>}, surname : {<<"S","m","i","t","h">>}, team : {<<"C","a","r","l","t","o","n">>}, season : {2024}]

InitBatch ==
    /\ pc = "batch"
    /\ rows \in SeqsOf(BatchPlayers, 0, MaxRows)
    /\ db \in Tables(0..2, BatchColumns, MaxBatchRecords)
    /\ conn \in {"ok", "no_engine", "no_raw"}
    /\ frame = <<>> /\ row_idx = 0 /\ report = NoReport
    /\ full_name = None /\ team = None
    /\ result = NoId /\ qlog = <<>> /\ raised = FALSE /\ escaped = FALSE
    /\ IdleFunction

\* a mutant of BatchParse: the sentinel row is parsed like any other row
BatchParseKeepsSentinel ==
    /\ pc = "batch"
    /\ pc' = "batch_parsed"
    /\ frame' = [i \in 1..Len(rows) |-> FrameRow(parse_player_data(rows[i]))]
    /\ UNCHANGED <<arg, shape, ret, db, full_name, team, result, qlog, raised, escaped,
                   rows, conn, row_idx, report>>

\* the sentinel row is dropped and every other row parsed
BatchParse ==
    /\ pc = "batch"
    /\ pc' = "batch_parsed"
    /\ frame' = LET kept == drop_sentinel(rows)
                IN  [i \in 1..Len(kept) |-> FrameRow(parse_player_data(kept[i]))]
    /\ UNCHANGED <<arg, shape, ret, db, full_name, team, result, qlog, raised, escaped,
                   rows, conn, row_idx, report>>

\* with an engine and a raw connection the rows are matched; without, the
\* player_id column is None and nothing is counted
BatchConnect ==
    /\ pc = "batch_parsed"
    /\ pc' = IF conn = "ok" THEN "batch_matching" ELSE "batch_done"
    /\ row_idx' = IF conn = "ok" THEN 1 ELSE row_idx
    /\ UNCHANGED <<arg, shape, ret, db, full_name, team, result, qlog, raised, escaped,
                   rows, frame, conn, report>>

\* a mutant of BatchMatchRow: a failed query ends the matching of the frame
BatchMatchRowStopsAtFailure ==
    /\ pc = "batch_matching"
    /\ row_idx <= Len(frame)
    /\ \E o \in match_player_id(frame[row_idx].full_name, frame[row_idx].team, db) :
          /\ frame' = [frame EXCEPT ![row_idx].player_id = o.result,
                                    ![row_idx].failed = o.raised]
          /\ pc' = IF o.raised THEN "batch_done" ELSE pc
    /\ row_idx' = row_idx + 1
    /\ UNCHANGED <<arg, shape, ret, db, full_name, team, result, qlog, raised, escaped,
                   rows, conn, report>>

\* DataFrame.apply calls match_player_id on the next row; an exception that
\* left match_player_id would leave clean_supercoach_data too
BatchMatchRow ==
    /\ pc = "batch_matching"
    /\ row_idx <= Len(frame)
    /\ \E o \in match_player_id(frame[row_idx].full_name, frame[row_idx].team, db) :
          /\ frame' = [frame EXCEPT ![row_idx].player_id = o.result,
                                    ![row_idx].failed = o.raised]
          /\ pc' = IF o.escaped THEN "batch_aborted" ELSE pc
    /\ row_idx' = row_idx + 1
    /\ UNCHANGED <<arg, shape, ret, db, full_name, team, result, qlog, raised, escaped,
                   rows, conn, report>>

\* matched_count = player_id.notna().sum(), total_count = len(frame)
BatchReport ==
    /\ pc = "batch_matching"
    /\ row_idx > Len(frame)
    /\ pc' = "batch_done"
    /\ report' = [matched_count |-> Cardinality({i \in 1..Len(frame) : frame[i].player_id # NoId}),
                  total_count |-> Len(frame)]
    /\ UNCHANGED <<arg, shape, ret, db, full_name, team, result, qlog, raised, escaped,
                   rows, frame, conn, row_idx>>

NextBatch == BatchParse \/ BatchConnect \/ BatchMatchRow \/ BatchReport

SpecBatch == InitBatch /\ [][NextBatch]_vars

(***************************************************************************)
(* Claims about the Identity Resolver                                      *)
(***************************************************************************)
\* the input's first-name token and surname (the remaining tokens)
InputFirst == Split(Strip(full_name))[1]
InputSurname == Join(Tail(Split(Strip(full_name))), <<" ">>)

\* a row with the input's first name, surname and team, letter case aside
ExactRecord(r) ==
    /\ LOWER(r.firstName) = LOWER(InputFirst)
    /\ LOWER(r.surname) = LOWER(InputSurname)
    /\ LOWER(r.team) = LOWER(team)

\* a row of the input's team whose names only contain the input's names
FuzzyOnlyRecord(r) ==
    /\ ~ExactRecord(r)
    /\ LOWER(r.team) = LOWER(team)
    /\ ILike(r.firstName, Contains(InputFirst))
    /\ ILike(r.surname, Contains(InputSurname))

\* a call with a name of two or more tokens that ended without a channel failure
MatchedNormally ==
    /\ pc = "match_done" /\ ~raised
    /\ valid_arguments(full_name, team)
    /\ Len(Split(Strip(full_name))) >= 2

\* C1: when the table holds a row matching the input exactly and another one
\* matching it only by substring, match_player_id returns the id of an exact
\* row, never the fuzzy row's.
C1_ExactBeforeFuzzy ==
    (MatchedNormally /\ (\E e \in db : ExactRecord(e)) /\ (\E f \in db : FuzzyOnlyRecord(f))) =>
        result \in {e.id : e \in {r \in db : ExactRecord(r)}}

\* C2: when the table holds two rows with the input's name and team and
\* different seasons, match_player_id returns the id of a row of the highest
\* of their seasons, whatever else the table holds.
C2_HigherSeasonWins ==
    (MatchedNormally /\ (\E r1, r2 \in db :
            ExactRecord(r1) /\ ExactRecord(r2) /\ r1.season # r2.season)) =>
        LET exact == {r \in db : ExactRecord(r)}
        IN  result \in {r.id : r \in {x \in exact : \A y \in exact : y.season <= x.season}}

IsMissing(x) == x = None \/ x = <<>> \/ x = <<"N","o","n","e">>

\* C5 as stated: no query and None whenever full_name or team is None, empty
\* or the placeholder 'None'.
C5_MissingArgumentsUnresolved ==
    (pc = "match_done" /\ (IsMissing(full_name) \/ IsMissing(team))) =>
        (result = NoId /\ qlog = <<>> /\ ~raised /\ ~escaped)

\* C5, amended: no query and None whenever full_name is None or empty, or team
\* is None, empty or the placeholder 'None'; a full_name of 'None' with a valid
\* team is a one-token name and is queried.
C5_GuardedArgumentsUnresolved ==
    /\ (pc = "match_done" /\ (full_name \in {None, <<>>} \/ IsMissing(team))) =>
          (result = NoId /\ qlog = <<>> /\ ~raised /\ ~escaped)
    /\ (pc = "match_done" /\ full_name = <<"N","o","n","e">> /\ ~IsMissing(team)) =>
          (Len(qlog) = 1 /\ qlog[1].kind = "first_name_only" /\ qlog[1].first = <<"N","o","n","e">>)

C5_Witness ==
    /\ pc = "match_done" /\ full_name = <<"N","i","c"," ","S","m","i","t","h">> /\ team = <<"N","o","n","e">>
    /\ \E r \in db : r.firstName = <<"N","i","c">> /\ r.surname = <<"S","m","i","t","h">>
    /\ result = NoId /\ qlog = <<>>

(***************************************************************************)
(* Claims about the batch driver                                           *)
(***************************************************************************)
\* what match_player_id can return for row k of the frame when no query fails
NormalResults(k) ==
    {o.result : o \in {x \in match_player_id(frame[k].full_name, frame[k].team, db) : ~x.raised}}

BatchFinished == pc = "batch_done" /\ conn = "ok"

C8_StandardizeTeamName ==
    pc = "team_done" =>
        /\ Cardinality(Keys(get_team_mapping)) = 18
        /\ (arg = None \/ arg = <<>>) => ret = None
        /\ \A i \in 1..Len(get_team_mapping) :
              arg = get_team_mapping[i][1] => ret = get_team_mapping[i][2]
        /\ arg = <<"H","a","w","k","s">> => ret = <<"H","a","w","t","h","o","r","n">>
        /\ arg = <<"G","i","a","n","t","s">> => ret = <<"G","W","S"," ","G","I","A","N","T","S">>
        /\ (arg # None /\ arg # <<>> /\ arg \notin Keys(get_team_mapping)) => ret = arg

C8_Witness ==
    pc = "team_done" /\ arg = <<"G","i","a","n","t","s">> /\ ret = <<"G","W","S"," ","G","I","A","N","T","S">>

\* C9: team normalisation is idempotent on the known tokens (no canonical name is
\* itself a key of the table) and total: None and unknown inputs get a value.
C9_TeamIdempotent ==
    pc = "team_done" =>
        /\ arg \in Keys(get_team_mapping) =>
              /\ standardize_team_name(ret) = ret
              /\ ret \notin Keys(get_team_mapping)
        /\ arg \notin Keys(get_team_mapping) => ret \in {None, arg}

C9_Witness ==
    /\ pc = "team_done" /\ arg = <<"K","a","n","g","a","r","o","o","s">> /\ ret = <<"N","o","r","t","h"," ","M","e","l","b","o","u","r","n","e">>
    /\ standardize_team_name(ret) = <<"N","o","r","t","h"," ","M","e","l","b","o","u","r","n","e">>

(***************************************************************************)
(* Claims about the Player-String Decomposer                               *)
(***************************************************************************)
\* the canonical name the table gives a team token
CanonicalOf(token) ==
    get_team_mapping[CHOOSE i \in 1..Len(get_team_mapping) : get_team_mapping[i][1] = token][2]

\* C6: for First + Surname + Initial + Surname + TeamToken (one token each, the
\* team token one of the 18 known), parse_player_data returns the canonical team
\* and full_name = "First Surname".
C6_StructuredString ==
    (pc = "parse_done" /\ shape.form = "structured" /\ Len(shape.surname) = 1) =>
        /\ ret.team = CanonicalOf(shape.team_token)
        /\ ret.full_name = shape.first \o <<" ">> \o shape.surname[1]
        /\ arg = <<"T","r","i","s","t","a","n","X","e","r","r","i","T","X","e","r","r","i","K","a","n","g","a","r","o","o","s">> =>
              ret = ParsedPlayer(<<"T","r","i","s","t","a","n"," ","X","e","r","r","i">>, <<"T"," ","X","e","r","r","i">>, <<"N","o","r","t","h"," ","M","e","l","b","o","u","r","n","e">>)

C6_Witness ==
    /\ pc = "parse_done" /\ shape.form = "structured"
    /\ arg = <<"T","r","i","s","t","a","n","X","e","r","r","i","T","X","e","r","r","i","K","a","n","g","a","r","o","o","s">>
    /\ ret = ParsedPlayer(<<"T","r","i","s","t","a","n"," ","X","e","r","r","i">>, <<"T"," ","X","e","r","r","i">>, <<"N","o","r","t","h"," ","M","e","l","b","o","u","r","n","e">>)

\* the parts of a structured string once the team token is taken off
StructuredParts(sh) == <<sh.first>> \o sh.surname \o <<sh.initial>> \o sh.surname

\* the (1-based) index of Initial among those parts
InitialIndex(sh) == Len(sh.surname) + 2

\* the surname indexes j >= 2 whose single-letter token S_j comes after every
\* distinct surname token: the split before S_j scores as much as the one at Initial
TyingSurnameIndexes(sh) ==
    {j \in 2..Len(sh.surname) :
        /\ Len(sh.surname[j]) = 1
        /\ Range(SubSeq(sh.surname, 1, j - 1)) = Range(sh.surname)}

\* C7 as stated: with the surname tokens on both sides (single letters among them
\* allowed), the scored split selects the position of Initial, with a score >= 3.
C7_SplitAtInitial ==
    (pc = "parse_done" /\ shape.form = "structured") =>
        LET best == best_split_of(StructuredParts(shape))
        IN  /\ best.best_split = InitialIndex(shape)
            /\ best.best_score >= 3
            /\ ret.full_name = Join(<<shape.first>> \o shape.surname, <<" ">>)
            /\ ret.abbreviated_name = Join(<<shape.initial>> \o shape.surname, <<" ">>)

\* C7, amended: the scored split selects the position of Initial with a score >= 3
\* unless a single-letter surname token S_j (j >= 2) comes after every distinct
\* surname token; then the lowest such position is selected instead (equal score,
\* lower index).
C7_SplitAtInitialUnlessTie ==
    (pc = "parse_done" /\ shape.form = "structured") =>
        LET best == best_split_of(StructuredParts(shape))
            ties == TyingSurnameIndexes(shape)
            chosen == IF ties = {} THEN InitialIndex(shape)
                      ELSE 1 + CHOOSE j \in ties : \A k \in ties : j <= k
        IN  /\ best.best_split = chosen
            /\ best.best_score >= 3
            /\ ret.full_name = Join(SubSeq(StructuredParts(shape), 1, chosen - 1), <<" ">>)
            /\ ret.abbreviated_name =
                  Join(SubSeq(StructuredParts(shape), chosen, Len(StructuredParts(shape))), <<" ">>)
            /\ ret.team = CanonicalOf(shape.team_token)
            /\ arg = <<"M","a","s","s","i","m","o","D","A","m","b","r","o","s","i","o","M","D","A","m","b","r","o","s","i","o","H","a","w","k","s">> =>
                  ret = ParsedPlayer(<<"M","a","s","s","i","m","o"," ","D"," ","A","m","b","r","o","s","i","o">>, <<"M"," ","D"," ","A","m","b","r","o","s","i","o">>, <<"H","a","w","t","h","o","r","n">>)

C7_Witness ==
    /\ pc = "parse_done" /\ shape.form = "structured"
    /\ arg = <<"M","a","s","s","i","m","o","D","A","m","b","r","o","s","i","o","M","D","A","m","b","r","o","s","i","o","H","a","w","k","s">>
    /\ best_split_of(StructuredParts(shape)).best_split = 4
    /\ ret = ParsedPlayer(<<"M","a","s","s","i","m","o"," ","D"," ","A","m","b","r","o","s","i","o">>, <<"M"," ","D"," ","A","m","b","r","o","s","i","o">>, <<"H","a","w","t","h","o","r","n">>)

\* C10: for every string that is neither the sentinel nor blank, the returned
\* full_name is a non-empty string; a string without a usable split degrades to
\* its parts as the full name.
C10_FullNameNonEmpty ==
    (pc = "parse_done" /\ arg # None /\ arg # Sentinel /\ Len(Strip(arg)) > 0) =>
        /\ ret.full_name # None
        /\ Len(ret.full_name) > 0
        /\ ret.abbreviated_name # None => Len(ret.abbreviated_name) > 0

C10_Witness ==
    /\ pc = "parse_done" /\ shape.form = "pieces"
    /\ Len(FindAllCapitalised(arg)) >= 3
    /\ ret.full_name # None /\ Len(ret.full_name) > 0
    /\ ret.abbreviated_name = None


(***************************************************************************)
(* Further claims about the Player-String Decomposer                       *)
(***************************************************************************)
\* a string of whitespace only, the empty string included
Blank(s) == s # None /\ \A i \in 1..Len(s) : s[i] \in Whitespace

\* the capitalised parts of a player string, none for None
PartsOf(s) == IF s = None THEN <<>> ELSE FindAllCapitalised(s)

\* C11: for None, the sentinel 'No results found.', the empty string and a
\* whitespace-only string, parse_player_data returns None for full_name,
\* abbreviated_name and team.
C11_RejectedInputsAllNull ==
    (pc = "parse_done" /\ (arg = None \/ arg = Sentinel \/ Blank(arg))) =>
        /\ ret.full_name = None
        /\ ret.abbreviated_name = None
        /\ ret.team = None

C11_Witness ==
    /\ pc = "parse_done" /\ arg = <<" ","\t">>
    /\ ret = ParsedPlayer(None, None, None)

\* C12 as stated: a non-blank string with fewer than 3 capitalised parts comes
\* back as full_name, with abbreviated_name and team None, a team abbreviation
\* among the parts or not.
C12_FewPartsRawString ==
    (pc = "parse_done" /\ arg # None /\ ~Blank(arg) /\ Len(PartsOf(arg)) < 3) =>
        ret = ParsedPlayer(arg, None, None)

\* C12, amended: a non-blank string other than the sentinel 'No results found.'
\* with fewer than 3 capitalised parts comes back as full_name, with
\* abbreviated_name and team None, a team abbreviation among the parts or not;
\* the sentinel (one part, 'No') gives None for all three fields.
C12_FewPartsRawStringUnlessSentinel ==
    /\ (pc = "parse_done" /\ arg # None /\ ~Blank(arg) /\ arg # Sentinel
            /\ Len(PartsOf(arg)) < 3) =>
          ret = ParsedPlayer(arg, None, None)
    /\ (pc = "parse_done" /\ arg = Sentinel) =>
          (PartsOf(arg) = <<<<"N","o">>>> /\ ret = ParsedPlayer(None, None, None))

C12_Witness ==
    /\ pc = "parse_done" /\ arg = <<"T","r","i","s","t","a","n","H","a","w","k","s">>
    /\ PartsOf(arg) = <<<<"T","r","i","s","t","a","n">>, <<"H","a","w","k","s">>>>
    /\ ret = ParsedPlayer(<<"T","r","i","s","t","a","n","H","a","w","k","s">>, None, None)

\* C13: the team parse_player_data returns is None or one of the 18 canonical
\* names; it is a name exactly when the string has at least 3 parts and the
\* last one is a known team abbreviation; the names then come from the parts
\* without the team part.
C13_TeamCanonical ==
    pc = "parse_done" =>
        LET all_parts == PartsOf(arg)
            n == Len(all_parts)
            has_team == n >= 3 /\ all_parts[n] \in Keys(get_team_mapping)
        IN  /\ Cardinality(Values(get_team_mapping)) = 18
            /\ ret.team = None \/ ret.team \in Values(get_team_mapping)
            /\ ret.team # None <=> has_team
            /\ has_team =>
                  /\ ret.team = CanonicalOf(all_parts[n])
                  /\ ret.full_name = split_names(SubSeq(all_parts, 1, n - 1)).full_name
                  /\ ret.abbreviated_name = split_names(SubSeq(all_parts, 1, n - 1)).abbrev_name
                  /\ Split(ret.full_name)
                        \o (IF ret.abbreviated_name = None THEN <<>>
                            ELSE Split(ret.abbreviated_name))
                     = SubSeq(all_parts, 1, n - 1)

C13_Witness ==
    /\ pc = "parse_done" /\ arg = <<"T","r","i","s","t","a","n","X","e","r","r","i","H","a","w","k","s">>
    /\ ret = ParsedPlayer(<<"T","r","i","s","t","a","n"," ","X","e","r","r","i">>, None, <<"H","a","w","t","h","o","r","n">>)

(***************************************************************************)
(* Further claims about the Identity Resolver and the batch driver         *)
(***************************************************************************)
\* C14: for a fixed table and a fixed (full_name, team), two calls of
\* match_player_id that end without a channel failure return the same id, also
\* when several rows with different ids satisfy a strategy in the same season.
C14_Deterministic ==
    (pc = "match_done" /\ ~raised) =>
        \A o \in match_player_id(full_name, team, db) : ~o.raised => o.result = result

\* len(unmatched): the rows of the frame whose player_id is None
UnmatchedCount == Cardinality({i \in 1..Len(frame) : frame[i].player_id = NoId})

SingleWord(s) == s # None /\ Len(s) > 0 /\ \A i \in 1..Len(s) : s[i] \notin Whitespace

\* the names of the seven pairs the dict holds in both directions
TwoWayNames ==
    {<<"T","h","o","m","a","s">>, <<"T","o","m">>, <<"N","i","c","h","o","l","a","s">>, <<"N","i","c","k">>, <<"O","l","i","v","e","r">>, <<"O","l","l","i","e">>, <<"M","i","t","c","h","e","l","l">>, <<"M","i","t","c","h">>,
     <<"N","i","k","o","l","a","s">>, <<"N","i","k">>, <<"J","o","s","e","p","h">>, <<"J","o","e">>, <<"D","a","n","i","e","l">>, <<"D","a","n">>}

\* C16 as stated: every single-word name a that normalize_name maps to another
\* form b is what normalize_name maps b to; a name not in the dict is unchanged.
C16_Bidirectional ==
    (pc = "normalize_done" /\ SingleWord(arg)) =>
        /\ ret # arg => normalize_name(ret) = arg
        /\ arg \notin Keys(name_mappings) => ret = arg

\* C16, amended: normalize_name maps every single-word key of its dict to another
\* form and leaves every other single-word name unchanged; it maps that form
\* back to the name only for the seven pairs the dict holds in both directions
\* (Thomas/Tom, Nicholas/Nick, Oliver/Ollie, Mitchell/Mitch, Nikolas/Nik,
\* Joseph/Joe, Daniel/Dan); the other forms (Tim, Josh, Sam, ...) are no keys
\* and stay, and Nic and Mitchito go on to Nicholas and Mitchell.
C16_TwoWayForSevenPairs ==
    (pc = "normalize_done" /\ SingleWord(arg)) =>
        /\ ret # arg <=> arg \in Keys(name_mappings)
        /\ ret # arg => (normalize_name(ret) = arg <=> arg \in TwoWayNames)
        /\ (ret # arg /\ arg \notin TwoWayNames) =>
              \/ normalize_name(ret) = ret
              \/ arg = <<"N","i","c">> /\ normalize_name(ret) = <<"N","i","c","h","o","l","a","s">>
              \/ arg = <<"M","i","t","c","h","i","t","o">> /\ normalize_name(ret) = <<"M","i","t","c","h","e","l","l">>
        /\ arg = <<"T","h","o","m","a","s">> => ret = <<"T","o","m">>
        /\ arg = <<"T","o","m">> => ret = <<"T","h","o","m","a","s">>

C16_Witness ==
    /\ pc = "normalize_done" /\ arg = <<"T","i","m","o","t","h","y">> /\ ret = <<"T","i","m">>
    /\ normalize_name(ret) = <<"T","i","m">>

\* the entries of the reverse-mapping table for a name, none for a name it lacks
ReverseEntries(name) ==
    IF \E i \in 1..Len(reverse_mapping) : reverse_mapping[i][1] = name
    THEN reverse_mapping[CHOOSE i \in 1..Len(reverse_mapping) : reverse_mapping[i][1] = name][2]
    ELSE <<>>

\* the elements of a sequence at their first occurrence, in order
FirstOccurrences(seq) ==
    LET firsts == SelectSeq([i \in 1..Len(seq) |-> i],
                            LAMBDA i : \A j \in 1..(i - 1) : seq[j] # seq[i])
    IN  [k \in 1..Len(firsts) |-> seq[firsts[k]]]

\* C17: for a non-empty name, get_name_variants returns a sequence without
\* duplicates: the name, then normalize_name(name) if it differs, then the
\* entries of the reverse-mapping table for the name, in table order.
C17_VariantsInOrder ==
    (pc = "variants_done" /\ arg # None /\ Len(arg) > 0) =>
        LET normalized == normalize_name(arg)
            listed == <<arg>>
                      \o (IF normalized # arg THEN <<normalized>> ELSE <<>>)
                      \o ReverseEntries(arg)
        IN  /\ ret = FirstOccurrences(listed)
            /\ ret[1] = arg
            /\ \A i, j \in 1..Len(ret) : i # j => ret[i] # ret[j]
            /\ Range(ret) = Range(listed)

C17_Witness ==
    /\ pc = "variants_done" /\ arg = <<"N","i","c","h","o","l","a","s">>
    /\ ret = <<<<"N","i","c","h","o","l","a","s">>, <<"N","i","c","k">>, <<"N","i","c">>>>

(***************************************************************************)
(* Claims about the cascade of the Identity Resolver                       *)
(***************************************************************************)
\* the queries of the cascade for the input, and those that select a row
InputPlan == cascade(Split(Strip(full_name)), team)
Hits == {i \in 1..Len(InputPlan) : QueryRows(InputPlan[i], db) # {}}

\* C18: for a name of two or more tokens the strategies are tried in their
\* fixed order; the first strategy that finds a row, whatever its id, ends the
\* call with that id and no later strategy is queried; when no strategy finds a
\* row the call returns None.
C18_StopsAtFirstSuccess ==
    MatchedNormally =>
        /\ Len(qlog) <= Len(InputPlan)
        /\ qlog = SubSeq(InputPlan, 1, Len(qlog))
        /\ IF Hits = {}
           THEN result = NoId /\ qlog = InputPlan
           ELSE LET first_hit == CHOOSE i \in Hits : \A j \in Hits : i <= j
                    strategy == InputPlan[first_hit].strategy
                IN  /\ \A k \in 1..Len(qlog) : qlog[k].strategy <= strategy
                    /\ result \in {r.id : r \in UNION {QueryRows(InputPlan[i], db) :
                                      i \in {j \in Hits : InputPlan[j].strategy = strategy}}}

\* C19: whenever match_player_id returns an id, under any strategy, the row it
\* returns has the given team, letter case aside.
C19_TeamAlwaysMatches ==
    (pc = "match_done" /\ result # NoId) =>
        /\ \E r \in db : r.id = result
        /\ \A r \in db : r.id = result => LOWER(r.team) = LOWER(team)

C19_Witness ==
    /\ pc = "match_done" /\ team = <<"c","a","r","l","t","o","n">> /\ full_name = <<"N","i","c"," ","S","m","i","t","h">>
    /\ result = 1
    /\ \E r \in db : r.id = 1 /\ r.team = <<"C","a","r","l","t","o","n">>
    /\ \E r \in db : r.id # 1 /\ r.team = <<"E","s","s","e","n","d","o","n">> /\ r.surname = <<"S","m","i","t","h">>

\* the rows with the single token as first name and the given team, case aside
SingleTokenRecords ==
    {r \in db : /\ LOWER(r.firstName) = LOWER(Split(Strip(full_name))[1])
                /\ LOWER(r.team) = LOWER(team)}

\* C20: for a name of exactly one token match_player_id returns the id of a row
\* with that first name and the given team, of the most recent season among
\* those rows, whenever there is one.
C20_SingleToken ==
    (pc = "match_done" /\ ~raised /\ valid_arguments(full_name, team)
        /\ Len(Split(Strip(full_name))) = 1) =>
        IF SingleTokenRecords = {}
        THEN result = NoId
        ELSE result \in {r.id : r \in {x \in SingleTokenRecords :
                                          \A y \in SingleTokenRecords : y.season <= x.season}}

(***************************************************************************)
(* Claims about the strategies of the cascade                              *)
(***************************************************************************)
\* the input's name parts
InputParts == Split(Strip(full_name))

\* the rows with the input's first token as first name and the input's team
PartialRecords ==
    {r \in db : /\ LOWER(r.firstName) = LOWER(InputParts[1])
                /\ LOWER(r.team) = LOWER(team)}

\* C21: when no query before the last resort selects a row and the table holds
\* a row with the input's first token and team (any surname), match_player_id
\* returns the id of such a row of the most recent season among those rows.
C21_PartialLastResort ==
    (MatchedNormally /\ PartialRecords # {}
        /\ \A i \in 1..(Len(InputPlan) - 1) : QueryRows(InputPlan[i], db) = {}) =>
        result \in {r.id : r \in {x \in PartialRecords :
                                     \A y \in PartialRecords : y.season <= x.season}}

(***************************************************************************)
(* Claims about the split of the Player-String Decomposer                  *)
(***************************************************************************)
\* the parts left for the names once a team part is taken off the end
RemainingParts(s) ==
    LET all_parts == PartsOf(s)
        n == Len(all_parts)
    IN  IF n >= 3 /\ all_parts[n] \in Keys(get_team_mapping)
        THEN SubSeq(all_parts, 1, n - 1)
        ELSE all_parts

\* the single letters strictly between the first and the last of the parts
Candidates(parts) == {i \in 1..Len(parts) : Len(parts[i]) = 1 /\ 1 < i /\ i < Len(parts)}

\* the score the claim gives the split before index i
ClaimedScore(parts, i) ==
    (IF i - 1 >= 2 THEN 1 ELSE 0)
    + (IF Len(parts[i]) = 1 THEN 2 ELSE 0)
    + 3 * Cardinality({parts[j] : j \in {k \in 2..(i - 1) :
                                     \E l \in (i + 1)..Len(parts) : parts[l] = parts[k]}})

\* C22: the candidate split points are the single-letter parts strictly between
\* the first and the last remaining part; a candidate scores +1 for a full-name
\* side of at least 2 parts, +2 for an abbreviated side that starts with a
\* single letter and +3 per part shared by the two tails; the highest score is
\* selected, the lowest index among equal scores.
C22_SplitScoring ==
    (pc = "parse_done" /\ Len(PartsOf(arg)) >= 3) =>
        LET parts == RemainingParts(arg)
            splits == potential_splits(parts)
            best == best_split_of(parts)
        IN  /\ Range(splits) = Candidates(parts)
            /\ \A a, b \in 1..Len(splits) : a < b => splits[a] < splits[b]
            /\ \A i \in Candidates(parts) : split_score(parts, i) = ClaimedScore(parts, i)
            /\ Candidates(parts) = {} => best.best_split = 0
            /\ Candidates(parts) # {} =>
                  /\ best.best_split \in Candidates(parts)
                  /\ best.best_score = ClaimedScore(parts, best.best_split)
                  /\ \A j \in Candidates(parts) :
                        /\ ClaimedScore(parts, j) <= best.best_score
                        /\ ClaimedScore(parts, j) = best.best_score => best.best_split <= j
            /\ (Candidates(parts) # {} /\ best.best_score >= 3) =>
                  ret.full_name = Join(SubSeq(parts, 1, best.best_split - 1), <<" ">>)

C22_Witness ==
    /\ pc = "parse_done" /\ arg = <<"M","a","s","s","i","m","o","D","A","m","b","r","o","s","i","o","M","D","A","m","b","r","o","s","i","o","H","a","w","k","s">>
    /\ potential_splits(RemainingParts(arg)) = <<2, 4, 5>>
    /\ best_split_of(RemainingParts(arg)) = [best_split |-> 4, best_score |-> 9]
    /\ ret.full_name = <<"M","a","s","s","i","m","o"," ","D"," ","A","m","b","r","o","s","i","o">>

\* the names for a split of the parts before index i
NamesAt(parts, i) ==
    [full_name |-> Join(SubSeq(parts, 1, i - 1), <<" ">>),
     abbrev_name |-> Join(SubSeq(parts, i, Len(parts)), <<" ">>)]

\* the single letters at an index after the first, the last part included
SingleLetters(parts) == {i \in 2..Len(parts) : Len(parts[i]) = 1}

\* C23: the best scored split is used only with a score of at least 3;
\* otherwise the split is at the first single-letter part after the first part
\* (the last part included); without such a part the parts joined by single
\* spaces are the full_name and abbreviated_name is None.
C23_AcceptanceAndFallback ==
    (pc = "parse_done" /\ Len(PartsOf(arg)) >= 3) =>
        LET parts == RemainingParts(arg)
            best == best_split_of(parts)
            names == [full_name |-> ret.full_name, abbrev_name |-> ret.abbreviated_name]
        IN  IF best.best_split # 0 /\ best.best_score >= 3
            THEN names = NamesAt(parts, best.best_split)
            ELSE IF SingleLetters(parts) # {}
                 THEN names = NamesAt(parts, CHOOSE i \in SingleLetters(parts) :
                                                 \A j \in SingleLetters(parts) : i <= j)
                 ELSE names = [full_name |-> Join(parts, <<" ">>), abbrev_name |-> None]

C23_Witness ==
    /\ pc = "parse_done" /\ arg = <<"T","r","i","s","t","a","n","X","e","r","r","i","T">>
    /\ best_split_of(RemainingParts(arg)).best_split = 0
    /\ ret = ParsedPlayer(<<"T","r","i","s","t","a","n"," ","X","e","r","r","i">>, <<"T">>, None)

\* the tokens of a name, none for None
TokensOf(name) == IF name = None THEN <<>> ELSE Split(name)

\* C29: for an input of at least 3 parts, the tokens of full_name, then those of
\* abbreviated_name, then the team part taken off (if any) are the parts of the
\* input, in their order.
C29_TokenPartition ==
    (pc = "parse_done" /\ Len(PartsOf(arg)) >= 3) =>
        LET all_parts == PartsOf(arg)
            n == Len(all_parts)
            team_part == IF ret.team # None THEN <<all_parts[n]>> ELSE <<>>
        IN  /\ TokensOf(ret.full_name) \o TokensOf(ret.abbreviated_name) \o team_part = all_parts
            /\ ret.team # None => ret.team = CanonicalOf(all_parts[n])

C29_Witness ==
    /\ pc = "parse_done" /\ arg = <<"T","r","i","s","t","a","n","X","e","r","r","i","T","X","e","r","r","i","H","a","w","k","s">>
    /\ TokensOf(ret.full_name) = <<<<"T","r","i","s","t","a","n">>, <<"X","e","r","r","i">>>>
    /\ TokensOf(ret.abbreviated_name) = <<<<"T">>, <<"X","e","r","r","i">>>>
    /\ ret.team = <<"H","a","w","t","h","o","r","n">>

\* C30: for an input of at least 3 parts, abbreviated_name is a string exactly
\* when a remaining part after the first is a single letter; it then starts
\* with a single-letter token and full_name has at least one token.
C30_AbbreviationIffInitial ==
    (pc = "parse_done" /\ Len(PartsOf(arg)) >= 3) =>
        LET parts == RemainingParts(arg)
        IN  /\ ret.abbreviated_name # None <=> \E i \in 2..Len(parts) : Len(parts[i]) = 1
            /\ ret.abbreviated_name # None =>
                  /\ Len(TokensOf(ret.abbreviated_name)) >= 1
                  /\ Len(TokensOf(ret.abbreviated_name)[1]) = 1
                  /\ Len(TokensOf(ret.full_name)) >= 1

C30_Witness ==
    /\ pc = "parse_done" /\ arg = <<"T","T","r","i","s","t","a","n","X","e","r","r","i">>
    /\ ret = ParsedPlayer(<<"T"," ","T","r","i","s","t","a","n"," ","X","e","r","r","i">>, None, None)

(***************************************************************************)
(* Claims about the surname repairs of the Name Normalizer                 *)
(***************************************************************************)
\* the prefixes of the spacing repair, with the space that follows them
SpacedPrefixes == {<<"M","c"," ">>, <<"M","a","c"," ">>, <<"O","'"," ">>}

\* C27: for a surname that is one of the prefixes 'Mc ', 'Mac ', "O' " followed
\* by the rest of the surname, normalize_name returns the prefix without its
\* space, followed by the rest.
C27_PrefixSpaceCollapsed ==
    (pc = "normalize_done" /\ arg # None) =>
        \A p \in SpacedPrefixes :
            (StartsWith(arg, p) /\ SingleWord(SubSeq(arg, Len(p) + 1, Len(arg)))) =>
                ret = SubSeq(p, 1, Len(p) - 1) \o SubSeq(arg, Len(p) + 1, Len(arg))

\* the words of a name separated by single spaces
SpacedWords(name) == SplitOn(name, " ")

\* C28 as stated: normalize_name joins a name with a hyphen exactly when it has
\* two words, is no key of the dict and both words are longer than 2 characters.
C28_HyphenatedIffTwoLongWords ==
    (pc = "normalize_done" /\ arg # None /\ Len(arg) > 0) =>
        LET words == SpacedWords(arg)
            two_long_words == /\ Len(words) = 2 /\ arg \notin Keys(name_mappings)
                              /\ Len(words[1]) > 2 /\ Len(words[2]) > 2
        IN  /\ two_long_words => ret = words[1] \o <<"-">> \o words[2]
            /\ ~two_long_words => \A i \in 1..Len(ret) : ret[i] # "-" \/ "-" \in Range(arg)

\* C28, amended: the hyphenation works on the name as the spacing repairs leave
\* it: normalize_name returns the repaired name joined with a hyphen exactly
\* when the repaired name has exactly one space, is no key of the dict and the
\* words on both sides are longer than 2 characters ('Neal Bullen'); a repaired
\* name of one word, with two or more spaces or with a word of 2 characters or
\* fewer ('De Goey') stays as repaired (up to the dict).  So 'Mac Donald' gives
\* 'MacDonald', not 'Mac-Donald', and 'Mc Donald Smith' gives 'McDonald-Smith'.
C28_HyphenatedAfterRepair ==
    (pc = "normalize_done" /\ arg # None /\ Len(arg) > 0) =>
        LET repaired == repair_spacing(arg)
            words == SpacedWords(repaired)
            two_long_words == /\ Len(words) = 2 /\ repaired \notin Keys(name_mappings)
                              /\ Len(words[1]) > 2 /\ Len(words[2]) > 2
        IN  /\ two_long_words => ret = words[1] \o <<"-">> \o words[2]
            /\ ~two_long_words => ret = DictGet(name_mappings, repaired, repaired)
            /\ arg = <<"N","e","a","l"," ","B","u","l","l","e","n">> => ret = <<"N","e","a","l","-","B","u","l","l","e","n">>
            /\ arg = <<"D","e"," ","G","o","e","y">> => ret = <<"D","e"," ","G","o","e","y">>
            /\ arg = <<"M","a","c"," ","D","o","n","a","l","d">> => ret = <<"M","a","c","D","o","n","a","l","d">>
            /\ arg = <<"M","c"," ","D","o","n","a","l","d"," ","S","m","i","t","h">> => ret = <<"M","c","D","o","n","a","l","d","-","S","m","i","t","h">>
            /\ arg = <<"A","b","c"," ","D","e","f"," ","G","h","i">> => ret = arg

C28_Witness ==
    /\ pc = "normalize_done" /\ arg = <<"M","c"," ","D","o","n","a","l","d"," ","S","m","i","t","h">>
    /\ repair_spacing(arg) = <<"M","c","D","o","n","a","l","d"," ","S","m","i","t","h">>
    /\ ret = <<"M","c","D","o","n","a","l","d","-","S","m","i","t","h">>

(***************************************************************************)
(* Claims about the order of the strategies                                *)
(***************************************************************************)
\* the names match_player_id derives from the input
NormalizedFirst == normalize_name(InputParts[1])
RawSurname == Join(Tail(InputParts), <<" ">>)
NormalizedSurname == normalize_name(RawSurname)

\* the exact queries the claim expects before the variants: the normalized
\* names, then the original first name, the original surname, both originals,
\* each only where normalisation changed the name
ExpectedExactQueries ==
    <<Query("exact", NormalizedFirst, NormalizedSurname, team, 1)>>
    \o (IF NormalizedFirst # InputParts[1]
        THEN <<Query("exact", InputParts[1], NormalizedSurname, team, 2)>> ELSE <<>>)
    \o (IF NormalizedSurname # RawSurname
        THEN <<Query("exact", NormalizedFirst, RawSurname, team, 3)>> ELSE <<>>)
    \o (IF NormalizedFirst # InputParts[1] /\ NormalizedSurname # RawSurname
        THEN <<Query("exact", InputParts[1], RawSurname, team, 4)>> ELSE <<>>)

\* a call with valid arguments and a name of two or more tokens, ended or failed
CascadeEntered ==
    /\ pc = "match_done"
    /\ valid_arguments(full_name, team)
    /\ Len(InputParts) >= 2

\* C24: after the normalized exact match, the exact match with the original
\* first name is tried only if normalisation changed the first name, the one
\* with the original surname only if it changed the surname, the one with both
\* only if both changed; in that order, and before any variant or fuzzy query.
C24_OriginalNamesOnlyIfChanged ==
    CascadeEntered =>
        /\ \A k \in 1..Len(qlog) :
              IF k <= Len(ExpectedExactQueries)
              THEN qlog[k] = ExpectedExactQueries[k]
              ELSE qlog[k].strategy >= 5
        /\ (~raised /\ \A k \in 1..Len(ExpectedExactQueries) :
                           QueryRows(ExpectedExactQueries[k], db) = {}) =>
              Len(qlog) > Len(ExpectedExactQueries)

C24_Witness ==
    /\ pc = "match_done" /\ full_name = <<"N","i","c"," ","N","e","a","l"," ","B","u","l","l","e","n">> /\ ~raised
    /\ Len(qlog) = 4
    /\ qlog[2] = Query("exact", <<"N","i","c">>, <<"N","e","a","l","-","B","u","l","l","e","n">>, <<"C","a","r","l","t","o","n">>, 2)
    /\ qlog[3] = Query("exact", <<"N","i","c","k">>, <<"N","e","a","l"," ","B","u","l","l","e","n">>, <<"C","a","r","l","t","o","n">>, 3)
    /\ qlog[4] = Query("exact", <<"N","i","c">>, <<"N","e","a","l"," ","B","u","l","l","e","n">>, <<"C","a","r","l","t","o","n">>, 4)
    /\ result = 1

\* the exact queries the claim expects of the variant expansion: every variant
\* of the original first token, with the normalized then the original surname
RECURSIVE ExpectedVariantQueries(_)
ExpectedVariantQueries(variants) ==
    IF Len(variants) = 0 THEN <<>>
    ELSE <<Query("exact", variants[1], NormalizedSurname, team, 5)>>
         \o (IF NormalizedSurname # RawSurname
             THEN <<Query("exact", variants[1], RawSurname, team, 5)>> ELSE <<>>)
         \o ExpectedVariantQueries(Tail(variants))

\* the queries of the variant expansion among those issued
IssuedVariantQueries == SelectSeq(qlog, LAMBDA q : q.strategy = 5)

\* C25: the variant expansion tries every variant of the original first token,
\* in the order of get_name_variants, with the normalized and then the original
\* surname (where it differs), and the call returns at the first query that
\* finds a row, without trying the later ones.
C25_VariantExpansion ==
    (CascadeEntered /\ ~raised /\ IssuedVariantQueries # <<>>) =>
        LET expected == ExpectedVariantQueries(get_name_variants(InputParts[1]))
            issued == IssuedVariantQueries
            hits == {k \in 1..Len(expected) : QueryRows(expected[k], db) # {}}
        IN  /\ Len(issued) <= Len(expected)
            /\ issued = SubSeq(expected, 1, Len(issued))
            /\ hits = {} => issued = expected
            /\ hits # {} =>
                  LET first_hit == CHOOSE k \in hits : \A j \in hits : k <= j
                  IN  /\ Len(issued) = first_hit
                      /\ qlog[Len(qlog)] = expected[first_hit]
                      /\ result \in {r.id : r \in QueryRows(expected[first_hit], db)}

\* the rows that satisfy a query's own predicate: its name conditions and the team
PredicateRows(q) == {r \in db : NameCondition(q, r) /\ LOWER(r.team) = LOWER(q.team)}

\* the three queries the claim expects of the fuzzy match
ExpectedFuzzyQueries ==
    <<Query("fuzzy_first", NormalizedFirst, NormalizedSurname, team, 6),
      Query("fuzzy_surname", NormalizedFirst, NormalizedSurname, team, 6),
      Query("fuzzy_both", NormalizedFirst, NormalizedSurname, team, 6)>>

\* C26: the fuzzy match tries substring first name with exact surname, then
\* exact first name with substring surname, then substring on both, and returns
\* at the first of them with a matching row, the id of a row of the most recent
\* season among the rows that match that query's own predicate.
C26_FuzzyOrderAndSeason ==
    (CascadeEntered /\ ~raised /\ \E k \in 1..Len(qlog) : qlog[k].strategy = 6) =>
        LET issued == SelectSeq(qlog, LAMBDA q : q.strategy = 6)
            hits == {k \in 1..3 : PredicateRows(ExpectedFuzzyQueries[k]) # {}}
        IN  /\ issued = SubSeq(ExpectedFuzzyQueries, 1, Len(issued))
            /\ hits = {} => issued = ExpectedFuzzyQueries
            /\ hits # {} =>
                  LET first_hit == CHOOSE k \in hits : \A j \in hits : k <= j
                      matching == PredicateRows(ExpectedFuzzyQueries[first_hit])
                  IN  /\ Len(issued) = first_hit
                      /\ result \in {r.id : r \in {x \in matching :
                                                      \A y \in matching : y.season <= x.season}}

====
